---- MODULE Spec2Model ----
(***************************************************************************)
(* DocuSenseAI v2: the Streamlit session (app.py) and the ingestion,       *)
(* retrieval and keyword-extraction functions it calls (processor.py).     *)
(*                                                                         *)
(* One script run of app.py handles one button press.  The session state   *)
(* (vector_store, disk_scout) and the temporary directory survive a run;   *)
(* everything a run displays is redrawn by the next run.                   *)
(*                                                                         *)
(* Text is modelled in two ways.  Short strings the code edits character   *)
(* by character (the query, the keyword model's reply) are sequences of    *)
(* one-character strings.  Long texts (document bodies, file contents)     *)
(* are modelled by their length and by what they are made of.              *)
(***************************************************************************)
EXTENDS Integers, Sequences, FiniteSets, TLC

\* Longest reply of the keyword model, in characters.
MaxLen == 2
\* Number of names the temporary directory can hand out.
MaxTmp == 2

\* processor.py: RecursiveCharacterTextSplitter(chunk_size, chunk_overlap)
CHUNK_SIZE == 1500
CHUNK_OVERLAP == 150
\* processor.py: similarity_search(query, k=3)
SEARCH_K == 3
\* app.py: content[:4000]
CONTENT_LIMIT == 4000

Min(a, b) == IF a <= b THEN a ELSE b

\* The sequences over S without repetition.
RECURSIVE Arrangements(_)
Arrangements(S) ==
    IF S = {} THEN {<<>>}
    ELSE {<<>>} \cup UNION {{<<x>> \o t : t \in Arrangements(S \ {x})} : x \in S}

\* The sequences over S of length at most n.
RECURSIVE SeqsUpTo(_, _)
SeqsUpTo(S, n) ==
    IF n = 0 THEN {<<>>}
    ELSE {<<>>} \cup {<<x>> \o t : x \in S, t \in SeqsUpTo(S, n - 1)}

(***************************************************************************)
(* Short strings: the characters that matter to str.strip and str.replace. *)
(***************************************************************************)
Chars == {"b", " ", "\"", "'"}
Whitespace == {" "}

\* str.strip(): leading and trailing whitespace removed.
RECURSIVE LStrip(_)
LStrip(s) == IF s # <<>> /\ Head(s) \in Whitespace THEN LStrip(Tail(s)) ELSE s

RECURSIVE RStrip(_)
RStrip(s) ==
    IF s # <<>> /\ s[Len(s)] \in Whitespace THEN RStrip(SubSeq(s, 1, Len(s) - 1)) ELSE s

Strip(s) == RStrip(LStrip(s))

\* str.replace(c, ''): every occurrence of the character c removed.
RECURSIVE Remove(_, _)
Remove(s, c) ==
    IF s = <<>> THEN <<>>
    ELSE IF Head(s) = c THEN Remove(Tail(s), c)
    ELSE <<Head(s)>> \o Remove(Tail(s), c)

\* What ollama.chat can do: fail, or reply with some text.
ChatFailure == [ok |-> FALSE, content |-> <<>>]
ChatOutcomes == {ChatFailure} \cup {[ok |-> TRUE, content |-> s] : s \in SeqsUpTo(Chars, MaxLen)}

\* processor.py extract_search_keyword: the reply stripped and with both
\* quote characters removed; the query itself when the call raises.
extract_search_keyword(user_query, chat) ==
    IF chat.ok
    THEN [raised |-> FALSE, value |-> Remove(Remove(Strip(chat.content), "\""), "'")]
    ELSE [raised |-> FALSE, value |-> user_query]

\* The queries typed into the text box.
Queries == {<<"b">>, <<" ", "b">>}

(***************************************************************************)
(* Names and paths.  An uploaded file's name and a temporary file's path   *)
(* are both values of one shape, so that a document's metadata.source can  *)
(* be compared with either.                                                *)
(***************************************************************************)
UploadName(stem, ext) == [kind |-> "upload", stem |-> stem, id |-> 0, ext |-> ext]

\* tempfile.NamedTemporaryFile(delete=False, suffix=file_ext): a fresh name
\* that ends in the suffix.
TmpPath(n, suffix) == [kind |-> "tmp", stem |-> "tmp", id |-> n, ext |-> suffix]

\* str.lower() on the extensions that occur.
Lower(ext) == IF ext = ".PDF" THEN ".pdf" ELSE ext

\* os.path.splitext(name)[1]
SplitExt(name) == name.ext

(***************************************************************************)
(* Long texts: a text is a sequence of segments, each a tag saying what    *)
(* the segment is (a page, a sheet's data card, a file body, a separator)  *)
(* and its length in characters.                                           *)
(***************************************************************************)
Seg(tag, len) == [tag |-> tag, len |-> len]

RECURSIVE TextLen(_)
TextLen(segs) == IF segs = <<>> THEN 0 ELSE Head(segs).len + TextLen(Tail(segs))

\* "\n".join(full_text)
RECURSIVE JoinNewline(_)
JoinNewline(texts) ==
    IF texts = <<>> THEN <<>>
    ELSE IF Len(texts) = 1 THEN <<Head(texts)>>
    ELSE <<Head(texts), Seg("newline", 1)>> \o JoinNewline(Tail(texts))

\* An uploaded file: its declared name and what a parser finds in it (the
\* pages of a pdf, the sheets of a workbook, one body otherwise).  Every
\* part is non-empty text.
File(stem, ext, parts) == [name |-> UploadName(stem, ext), parts |-> parts]

UploadFiles ==
    { File("report", ".pdf", <<Seg("page1", 2000), Seg("page2", 300)>>),
      File("SCAN", ".PDF", <<Seg("page1", 100)>>),
      File("memo", ".docx", <<Seg("body", 500)>>),
      File("sales", ".xlsx", <<Seg("Jan", 400), Seg("Feb", 600)>>),
      File("stock", ".xlsx", <<Seg("Sheet1", 1700)>>),
      File("old", ".xls", <<Seg("Q1", 200), Seg("Q2", 200), Seg("Q3", 200)>>),
      File("budget", ".csv", <<Seg("table", 4300)>>),
      File("notes", ".txt", <<Seg("body", 10)>>),
      File("README", ".md", <<Seg("body", 1501)>>),
      File("tool", ".py", <<Seg("body", 40)>>),
      File("run", ".exe", <<Seg("body", 70)>>) }

\* Where process_uploaded_file can fail apart from its own raise.
Faults == {"none", "write", "parse", "split", "embed"}

Document(text, source) == [page_content |-> text, source |-> source]

\* PyPDFLoader(tmp_path).load(): one document per page, each with the path
\* the loader was given as its source.
PdfDocs(uploaded_file, tmp_path) ==
    [i \in 1..Len(uploaded_file.parts) |->
        Document(<<uploaded_file.parts[i]>>, tmp_path)]

\* The excel branch with one document per sheet.
ExcelDocs_per_sheet(uploaded_file, tmp_path) ==
    [i \in 1..Len(uploaded_file.parts) |->
        Document(<<uploaded_file.parts[i]>>, uploaded_file.name)]

\* The excel branch: one data card per sheet appended to full_text, the
\* cards joined by newlines into ONE document.
ExcelDocs(uploaded_file, tmp_path) ==
    <<Document(JoinNewline(uploaded_file.parts), uploaded_file.name)>>

\* The csv branch: one data card, one document.
CsvDocs(uploaded_file, tmp_path) ==
    <<Document(<<uploaded_file.parts[1]>>, uploaded_file.name)>>

\* TextLoader(tmp_path).load(): one document, its source the path given.
TextDocs(uploaded_file, tmp_path) ==
    <<Document(<<uploaded_file.parts[1]>>, tmp_path)>>

\* The if/elif chain on file_ext: the branch taken.
Branch(file_ext) ==
    IF file_ext = ".pdf" THEN "pdf"
    ELSE IF file_ext \in {".xlsx", ".xls"} THEN "excel"
    ELSE IF file_ext = ".csv" THEN "csv"
    ELSE IF file_ext \in {".txt", ".md", ".py"} THEN "text"
    ELSE "unsupported"

Normalize(uploaded_file, tmp_path, file_ext) ==
    CASE Branch(file_ext) = "pdf" -> PdfDocs(uploaded_file, tmp_path)
      [] Branch(file_ext) = "excel" -> ExcelDocs(uploaded_file, tmp_path)
      [] Branch(file_ext) = "csv" -> CsvDocs(uploaded_file, tmp_path)
      [] Branch(file_ext) = "text" -> TextDocs(uploaded_file, tmp_path)
      [] OTHER -> <<>>

(***************************************************************************)
(* RecursiveCharacterTextSplitter(chunk_size=1500, chunk_overlap=150,      *)
(* add_start_index=True).split_documents: each document is split on its    *)
(* own; a text that fits is one chunk, a longer one is cut into windows of *)
(* chunk_size characters, each starting chunk_overlap characters before    *)
(* the end of the one before (the splitter's result on text it has to cut  *)
(* at character level).                                                    *)
(***************************************************************************)
ChunkCount(L) ==
    IF L <= CHUNK_SIZE THEN 1
    ELSE 1 + ((L - CHUNK_SIZE) + (CHUNK_SIZE - CHUNK_OVERLAP) - 1)
                \div (CHUNK_SIZE - CHUNK_OVERLAP)

\* The tags of the segments that the window [from, to) of a text touches.
RECURSIVE TagsIn(_, _, _, _)
TagsIn(segs, offset, from, to) ==
    IF segs = <<>> THEN {}
    ELSE (IF offset < to /\ from < offset + Head(segs).len
          THEN {Head(segs).tag} ELSE {})
         \cup TagsIn(Tail(segs), offset + Head(segs).len, from, to)

SplitDocument(doc) ==
    LET L == TextLen(doc.page_content)
        start(i) == (i - 1) * (CHUNK_SIZE - CHUNK_OVERLAP)
        stop(i) == Min(L, start(i) + CHUNK_SIZE)
    IN  [i \in 1..ChunkCount(L) |->
            [source |-> doc.source,
             start_index |-> start(i),
             len |-> stop(i) - start(i),
             tags |-> TagsIn(doc.page_content, 0, start(i), stop(i))]]

RECURSIVE split_documents(_)
split_documents(docs) ==
    IF docs = <<>> THEN <<>>
    ELSE SplitDocument(Head(docs)) \o split_documents(Tail(docs))

\* A session's vector_store: None, or a FAISS index over its chunks.
None == [present |-> FALSE, docstore |-> <<>>]

\* FAISS.from_documents(chunks, embedding_model): a fresh index.
FromDocuments(chunks) == [present |-> TRUE, docstore |-> chunks]

Raise(error, leaked) ==
    [raised |-> error, index |-> None, count |-> 0, raw_docs |-> <<>>,
     tmp_left |-> leaked]

\* processor.py process_uploaded_file.  The result says what the call
\* raised ("none": it returned), what it returned, the documents of its
\* normalization, and whether its temporary file is still there afterwards.
process_uploaded_file(uploaded_file, tmp_path, fault) ==
    LET file_ext == Lower(SplitExt(uploaded_file.name))
        raw_docs == Normalize(uploaded_file, tmp_path, file_ext)
        chunks == split_documents(raw_docs)
    IN  IF fault = "write" THEN Raise("WriteError", TRUE)
        ELSE IF Branch(file_ext) = "unsupported" THEN Raise("UnsupportedFormat", FALSE)
        ELSE IF fault = "parse" THEN Raise("ParseError", FALSE)
        ELSE IF fault = "split" THEN Raise("SplitError", FALSE)
        ELSE IF fault = "embed" THEN Raise("EmbedError", FALSE)
        ELSE [raised |-> "none", index |-> FromDocuments(chunks),
              count |-> Len(chunks), raw_docs |-> raw_docs, tmp_left |-> FALSE]

(***************************************************************************)
(* processor.py query_local_model.                                         *)
(***************************************************************************)
\* What a run calls or displays: the operation and its argument (a list).
Ev(op, arg) == [op |-> op, arg |-> arg]

\* The k requested from the index, were it capped by the index's size.
RequestedK_capped(vector_store) == Min(SEARCH_K, Len(vector_store.docstore))

\* The k that query_local_model passes to similarity_search.
RequestedK(vector_store) == SEARCH_K

\* What similarity_search(query, k) can return: k chunks of the index in
\* some order of rank, all of them when the index holds fewer.  A chunk is
\* named by its position in the index.
similarity_search(vector_store, k) ==
    {s \in Arrangements(1..Len(vector_store.docstore)) :
        Len(s) = Min(k, Len(vector_store.docstore))}

\* query_local_model(query, vector_store), given the chunks the search
\* returns and whether the chat call succeeds.  One search, then one chat
\* call; a failed chat call propagates.
query_local_model(q, vector_store, docs, chat_ok) ==
    [raised |-> ~chat_ok,
     calls |-> <<Ev("similarity_search", <<RequestedK(vector_store)>>), Ev("chat", <<>>)>>,
     sources |-> IF chat_ok THEN docs ELSE <<>>]

(***************************************************************************)
(* DiskScout (disk_ops.py): the allow-list, scouting and lazy reading.     *)
(***************************************************************************)
ExistingDirs == {"/docs", "/proj"}
TypedPaths == ExistingDirs \cup {"/nonexistent"}

DiskFile(name, dir, len) == [name |-> name, dir |-> dir, len |-> len]

DiskFiles ==
    { DiskFile("budget_2024.csv", "/docs", 4001),
      DiskFile("notes.txt", "/docs", 12),
      DiskFile("plan.md", "/proj", 4000) }

\* add_path(path): the path joins the allow-list when it is acceptable.
add_path(allowed, path) ==
    IF path \in ExistingDirs
    THEN [success |-> TRUE, allowed |-> allowed \cup {path}]
    ELSE [success |-> FALSE, allowed |-> allowed]

\* scout_files(keyword): an ordered set of files under allow-listed
\* folders; which of them match a keyword is the scout's own concern.
scout_files(allowed, kw) == Arrangements({f \in DiskFiles : f.dir \in allowed})

\* read_file_lazy(match): the whole content of the file.
read_file_lazy(m) == [of |-> m.name, len |-> m.len]

\* content[:n]
Prefix(content, n) == [of |-> content.of, len |-> Min(content.len, n)]

\* The block of one match without the size cap.
MakeBlock_uncapped(m, content) ==
    [head |-> "FILENAME: ", name |-> m.name, mid |-> "\nCONTENT: ",
     content |-> content, tail |-> "..."]

\* f"FILENAME: {m.name}\nCONTENT: {content[:4000]}..."
MakeBlock(m, content) ==
    [head |-> "FILENAME: ", name |-> m.name, mid |-> "\nCONTENT: ",
     content |-> Prefix(content, CONTENT_LIMIT), tail |-> "..."]

\* "\n\n".join(file_contents): each block with what the join puts before it.
JoinBlank(blocks) ==
    [i \in 1..Len(blocks) |->
        [before |-> IF i = 1 THEN "" ELSE "\n\n", block |-> blocks[i]]]

\* The matches listed under "Files Accessed", all but the first.
AccessedFiles_tail(found) == Tail(found)

\* for m in matches: st.code(str(m))
AccessedFiles(found) == found

(***************************************************************************)
(* The session.                                                            *)
(***************************************************************************)
VARIABLES
    vector_store,    \* st.session_state.vector_store
    allowed_paths,   \* st.session_state.disk_scout.allowed_paths
    tmp_files,       \* the temporary files that exist, by the number in their name
    last_ok,         \* the latest successful ingestion since the last forget, if any
    pc,              \* where the current run is: "idle" between runs
    handler,         \* the button the latest run handles
    ingest,          \* the latest run's call of process_uploaded_file
    query,           \* the latest run's query
    keyword,         \* the disk path's keyword
    matches,         \* the disk path's matches
    file_contents,   \* the disk path's blocks
    context_text,    \* the disk path's joined blocks
    events           \* what the latest run called and displayed, in order

vars == <<vector_store, allowed_paths, tmp_files, last_ok, pc, handler, ingest,
          query, keyword, matches, file_contents, context_text, events>>

NoIngest ==
    [called |-> FALSE, file |-> File("", "", <<>>), fault |-> "none",
     tmp_path |-> TmpPath(0, ""), result |-> Raise("none", FALSE)]

\* st.file_uploader(type=[...]): the extensions the widget lets through.
UploaderTypes == {".pdf", ".docx", ".xlsx", ".csv", ".txt", ".md"}

Accepted(uploaded_file) == Lower(SplitExt(uploaded_file.name)) \in UploaderTypes

\* if st.session_state.vector_store: an index object is always true.
Truthy_always(v) == TRUE

Truthy(v) == v.present

\* A run starts: nothing of the run before is displayed any more.
FreshRun(h, q, kw) ==
    /\ handler' = h
    /\ query' = q
    /\ keyword' = kw
    /\ matches' = <<>>
    /\ file_contents' = <<>>
    /\ context_text' = <<>>

Init ==
    /\ vector_store = None
    /\ allowed_paths = {}
    /\ tmp_files = {}
    /\ last_ok = <<>>
    /\ pc = "idle"
    /\ handler = "none"
    /\ ingest = NoIngest
    /\ query = <<>>
    /\ keyword = <<>>
    /\ matches = <<>>
    /\ file_contents = <<>>
    /\ context_text = <<>>
    /\ events = <<>>

\* "Forget All Data": the index and the allow-list are reset.
ForgetAllData ==
    /\ pc = "idle"
    /\ vector_store' = None
    /\ allowed_paths' = {}
    /\ last_ok' = <<>>
    /\ FreshRun("forget", <<>>, <<>>)
    /\ ingest' = NoIngest
    /\ events' = <<>>
    /\ UNCHANGED <<tmp_files, pc>>

\* "Process Upload" with a file that stores its index although the call raised.
ProcessUpload_store_anyway ==
    /\ pc = "idle"
    /\ \E uploaded_file \in {f \in UploadFiles : Accepted(f)},
          n \in (1..MaxTmp) \ tmp_files,
          fault \in Faults :
        LET tmp_path == TmpPath(n, Lower(SplitExt(uploaded_file.name)))
            r == process_uploaded_file(uploaded_file, tmp_path, fault)
        IN  /\ ingest' = [called |-> TRUE, file |-> uploaded_file, fault |-> fault,
                          tmp_path |-> tmp_path, result |-> r]
            /\ tmp_files' = IF r.tmp_left THEN tmp_files \cup {tmp_path.id} ELSE tmp_files
            /\ vector_store' = r.index
            /\ IF r.raised = "none"
               THEN /\ last_ok' = <<[file |-> uploaded_file, tmp_path |-> tmp_path]>>
                    /\ events' = <<Ev("success", <<>>)>>
               ELSE /\ last_ok' = last_ok
                    /\ events' = <<Ev("exception", <<>>)>>
    /\ FreshRun("upload", <<>>, <<>>)
    /\ UNCHANGED <<allowed_paths, pc>>

\* "Process Upload" with a file: the index of a successful ingestion
\* replaces the session's; a call that raises ends the run there.
ProcessUpload ==
    /\ pc = "idle"
    /\ \E uploaded_file \in {f \in UploadFiles : Accepted(f)},
          n \in (1..MaxTmp) \ tmp_files,
          fault \in Faults :
        LET tmp_path == TmpPath(n, Lower(SplitExt(uploaded_file.name)))
            r == process_uploaded_file(uploaded_file, tmp_path, fault)
        IN  /\ ingest' = [called |-> TRUE, file |-> uploaded_file, fault |-> fault,
                          tmp_path |-> tmp_path, result |-> r]
            /\ tmp_files' = IF r.tmp_left THEN tmp_files \cup {tmp_path.id} ELSE tmp_files
            /\ IF r.raised = "none"
               THEN /\ vector_store' = r.index
                    /\ last_ok' = <<[file |-> uploaded_file, tmp_path |-> tmp_path]>>
                    /\ events' = <<Ev("success", <<>>)>>
               ELSE /\ vector_store' = vector_store
                    /\ last_ok' = last_ok
                    /\ events' = <<Ev("exception", <<>>)>>
    /\ FreshRun("upload", <<>>, <<>>)
    /\ UNCHANGED <<allowed_paths, pc>>

\* "Grant Permission" with a typed folder path.
GrantPermission ==
    /\ pc = "idle"
    /\ \E folder_path \in TypedPaths :
        LET r == add_path(allowed_paths, folder_path)
        IN  /\ allowed_paths' = r.allowed
            /\ events' = <<Ev(IF r.success THEN "success" ELSE "error", <<>>)>>
    /\ FreshRun("grant", <<>>, <<>>)
    /\ ingest' = NoIngest
    /\ UNCHANGED <<vector_store, tmp_files, last_ok, pc>>

\* "Ask AI" in the mode "Uploaded Documents".
AskUploaded ==
    /\ pc = "idle"
    /\ \E q \in Queries, chat_ok \in BOOLEAN :
        /\ FreshRun("ask_uploaded", q, <<>>)
        /\ IF Truthy(vector_store)
           THEN \E docs \in similarity_search(vector_store, RequestedK(vector_store)) :
                   LET r == query_local_model(q, vector_store, docs, chat_ok)
                   IN  events' = r.calls \o
                          (IF r.raised THEN <<Ev("exception", <<>>)>>
                           ELSE <<Ev("answer", <<>>), Ev("sources", r.sources)>>)
           ELSE events' = <<Ev("error", <<>>)>>
    /\ ingest' = NoIngest
    /\ UNCHANGED <<vector_store, allowed_paths, tmp_files, last_ok, pc>>

\* "Ask AI" in the mode "Local Disk Scout": the keyword is extracted.
AskDisk ==
    /\ pc = "idle"
    /\ \E q \in Queries, chat \in ChatOutcomes :
        LET r == extract_search_keyword(q, chat)
        IN  /\ FreshRun("ask_disk", q, r.value)
            /\ IF r.raised
               THEN /\ events' = <<Ev("extract", <<chat.ok>>), Ev("exception", <<>>)>>
                    /\ pc' = "idle"
               ELSE /\ events' = <<Ev("extract", <<chat.ok>>)>>
                    /\ pc' = "scout"
    /\ ingest' = NoIngest
    /\ UNCHANGED <<vector_store, allowed_paths, tmp_files, last_ok>>

\* The disk path's scout: no match ends the run with a warning.
Scout ==
    /\ pc = "scout"
    /\ \E found \in scout_files(allowed_paths, keyword) :
        /\ matches' = found
        /\ IF found = <<>>
           THEN /\ events' = events \o <<Ev("scout", <<>>), Ev("warning", <<>>)>>
                /\ pc' = "idle"
           ELSE /\ events' = events \o <<Ev("scout", <<>>), Ev("success", <<>>)>>
                /\ pc' = "read"
    /\ UNCHANGED <<vector_store, allowed_paths, tmp_files, last_ok, handler, ingest,
                   query, keyword, file_contents, context_text>>

\* for m in matches: the next match is read and its block appended.
ReadNext ==
    /\ pc = "read"
    /\ LET m == matches[Len(file_contents) + 1]
           content == read_file_lazy(m)
       IN  /\ file_contents' = Append(file_contents, MakeBlock(m, content))
           /\ events' = Append(events, Ev("read", <<m>>))
    /\ pc' = IF Len(file_contents) + 1 = Len(matches) THEN "chat" ELSE "read"
    /\ UNCHANGED <<vector_store, allowed_paths, tmp_files, last_ok, handler, ingest,
                   query, keyword, matches, context_text>>

\* The blocks are joined and the chat call made; its answer is shown with
\* the files accessed, and a failed call ends the run.
Answer ==
    /\ pc = "chat"
    /\ context_text' = JoinBlank(file_contents)
    /\ \E chat_ok \in BOOLEAN :
        events' = events \o
            (IF chat_ok
             THEN <<Ev("chat", <<>>), Ev("answer", <<>>), Ev("files", AccessedFiles(matches))>>
             ELSE <<Ev("chat", <<>>), Ev("exception", <<>>)>>)
    /\ pc' = "idle"
    /\ UNCHANGED <<vector_store, allowed_paths, tmp_files, last_ok, handler, ingest,
                   query, keyword, matches, file_contents>>

\* The upload path: ingestion, reset and queries in the mode "Uploaded
\* Documents".
NextUpload ==
    \/ ForgetAllData
    \/ ProcessUpload
    \/ AskUploaded

SpecUpload == Init /\ [][NextUpload]_vars

\* The disk path: permissions, reset and queries in the mode "Local Disk
\* Scout".
NextDisk ==
    \/ ForgetAllData
    \/ GrantPermission
    \/ AskDisk
    \/ Scout
    \/ ReadNext
    \/ Answer

SpecDisk == Init /\ [][NextDisk]_vars

(***************************************************************************)
(* process_uploaded_file on its own: one call, on any file with any name,  *)
(* also one the upload widget would not let through.                       *)
(***************************************************************************)
PendingIngests ==
    {[called |-> FALSE, file |-> f, fault |-> fault,
      tmp_path |-> TmpPath(n, Lower(SplitExt(f.name))), result |-> Raise("none", FALSE)] :
        f \in UploadFiles, fault \in Faults, n \in 1..MaxTmp}

InitIngest ==
    /\ vector_store = None
    /\ allowed_paths = {}
    /\ tmp_files = {}
    /\ last_ok = <<>>
    /\ pc = "idle"
    /\ handler = "none"
    /\ ingest \in PendingIngests
    /\ query = <<>>
    /\ keyword = <<>>
    /\ matches = <<>>
    /\ file_contents = <<>>
    /\ context_text = <<>>
    /\ events = <<>>

\* The pending call is made.
CallIngest ==
    /\ ingest \in PendingIngests
    /\ LET r == process_uploaded_file(ingest.file, ingest.tmp_path, ingest.fault)
       IN  /\ ingest' = [ingest EXCEPT !.called = TRUE, !.result = r]
           /\ tmp_files' = IF r.tmp_left THEN tmp_files \cup {ingest.tmp_path.id}
                           ELSE tmp_files
    /\ UNCHANGED <<vector_store, allowed_paths, last_ok, pc, handler, query, keyword,
                   matches, file_contents, context_text, events>>

NextIngest == CallIngest

SpecIngest == InitIngest /\ [][NextIngest]_vars

(***************************************************************************)
(* The claims.                                                             *)
(***************************************************************************)
Ops(evs) == [i \in 1..Len(evs) |-> evs[i].op]

Called(op) == \E i \in 1..Len(events) : events[i].op = op

Ingested == ingest.called

IngestedOk == Ingested /\ ingest.result.raised = "none"

IngestExt == Lower(SplitExt(ingest.file.name))

\* The format tags the specification lists as supported.
SupportedTags == {".pdf", ".docx", ".xlsx", ".xls", ".csv", ".txt", ".md"}

\* C1: an ingestion in which nothing else fails ends in UnsupportedFormat
\* exactly when the file's format tag is outside the seven supported tags.
C1_UnsupportedIffOutsideSupported ==
    (Ingested /\ ingest.fault = "none")
        => (ingest.result.raised = "UnsupportedFormat" <=> IngestExt \notin SupportedTags)

\* C2: after a call of process_uploaded_file, however it ended, the
\* temporary file the call created does not exist.
C2_TemporaryFileRemoved ==
    Ingested => ingest.tmp_path.id \notin tmp_files

\* C3 as stated: the k requested from the index is min(3, chunkCount).
C3_RequestsMinOfThreeAndCount ==
    \A i \in 1..Len(events) :
        events[i].op = "similarity_search"
            => events[i].arg = <<Min(3, Len(vector_store.docstore))>>

\* C3, amended: the k requested from the index is 3 whatever the index
\* holds, also when it holds fewer than 3 chunks.
C3_RequestsThree ==
    \A i \in 1..Len(events) :
        events[i].op = "similarity_search" => events[i].arg = <<3>>

\* C3, witness: a search of an index that holds fewer than 3 chunks.
C3_Witness ==
    /\ handler = "ask_uploaded"
    /\ Called("similarity_search")
    /\ Len(vector_store.docstore) < 3

\* C4: the keyword extraction never raises, its result is never empty, and
\* it is the query itself when the model call failed.
C4_KeywordNeverEmpty ==
    (handler = "ask_disk")
        => /\ Ops(events)[1] = "extract"
           /\ ~(Len(events) >= 2 /\ events[2].op = "exception")
           /\ keyword # <<>>
           /\ (events[1].arg = <<FALSE>> => keyword = query)

\* C5: every document of a successful normalization, and every chunk of
\* the index built from it, has the uploaded file's name as its source.
C5_SourceIsUploadedName ==
    IngestedOk
        => /\ \A i \in 1..Len(ingest.result.raw_docs) :
                ingest.result.raw_docs[i].source = ingest.file.name
           /\ \A i \in 1..Len(ingest.result.index.docstore) :
                ingest.result.index.docstore[i].source = ingest.file.name

\* C6: a query in upload mode made while the session holds no index shows
\* the upload-first error and makes no search and no model call; a search
\* or a model call in upload mode happens only with an index present that a
\* successful ingestion built.
C6_NoIndexNoCalls ==
    (handler = "ask_uploaded")
        => /\ vector_store = None => Ops(events) = <<"error">>
           /\ (Called("similarity_search") \/ Called("chat") \/ Called("answer"))
                => /\ vector_store # None
                   /\ last_ok # <<>>
                   /\ ~Called("error")

\* C6, witness: a query in upload mode with no index.
C6_Witness ==
    /\ handler = "ask_uploaded"
    /\ vector_store = None
    /\ Called("error")

SheetTags(tags) == tags \ {"newline"}

\* C7 as stated: a workbook with N sheets yields N documents, one per
\* sheet, and no chunk holds text of two sheets.
C7_OneDocumentPerSheet ==
    (IngestedOk /\ Branch(IngestExt) = "excel")
        => /\ Len(ingest.result.raw_docs) = Len(ingest.file.parts)
           /\ \A i \in 1..Len(ingest.result.index.docstore) :
                Cardinality(SheetTags(ingest.result.index.docstore[i].tags)) <= 1

\* C7, amended: a workbook with N sheets yields exactly one document, whose
\* text is the N sheets' cards in sheet order with a newline between two
\* cards.
C7_OneDocumentPerWorkbook ==
    (IngestedOk /\ Branch(IngestExt) = "excel")
        => LET docs == ingest.result.raw_docs
               N == Len(ingest.file.parts)
           IN  /\ Len(docs) = 1
               /\ Len(docs[1].page_content) = 2 * N - 1
               /\ \A i \in 1..N : docs[1].page_content[2 * i - 1] = ingest.file.parts[i]
               /\ \A i \in 1..(N - 1) : docs[1].page_content[2 * i] = Seg("newline", 1)
               /\ docs[1].source = ingest.file.name

\* C7, witness: a workbook of two sheets ingested, a chunk of its index
\* holding text of both sheets.
C7_Witness ==
    /\ IngestedOk
    /\ Branch(IngestExt) = "excel"
    /\ Len(ingest.file.parts) = 2
    /\ \E i \in 1..Len(ingest.result.index.docstore) :
            Cardinality(SheetTags(ingest.result.index.docstore[i].tags)) = 2

BlockOf(m, tail) ==
    [head |-> "FILENAME: ", name |-> m.name, mid |-> "\nCONTENT: ",
     content |-> [of |-> m.name, len |-> IF m.len <= 4000 THEN m.len ELSE 4000],
     tail |-> tail]

BlocksAre(tail) ==
    /\ \A i \in 1..Len(file_contents) :
            /\ file_contents[i] = BlockOf(matches[i], tail)
            /\ file_contents[i].content.len <= 4000
    /\ \A i \in 1..Len(context_text) :
            /\ context_text[i].block = BlockOf(matches[i], tail)
            /\ context_text[i].before = (IF i = 1 THEN "" ELSE "\n\n")
    /\ Called("chat") => Len(context_text) = Len(matches)

\* C8 as stated: a block is 'FILENAME: <name>\nCONTENT: <t>' and nothing
\* else, <t> the first 4000 characters of the file's content.
C8_BlockIsNameAndContentOnly == BlocksAre("")

\* C8, amended: a block is 'FILENAME: <name>\nCONTENT: <t>...', <t> the
\* first 4000 characters of the file's content (all of it if shorter)
\* followed by three dots that are always appended; the content part is at
\* most 4000 characters, and the blocks are joined by a blank line.
C8_BlockIsNameContentAndDots == BlocksAre("...")

\* C8, witness: two blocks joined, one of a file longer than 4000
\* characters and one of a shorter file.
C8_Witness ==
    /\ Len(context_text) >= 2
    /\ \E i \in 1..Len(matches) : matches[i].len > 4000
    /\ \E i \in 1..Len(matches) : matches[i].len < 4000

\* C9: the session's index is absent when no ingestion has succeeded since
\* the last forget, and is otherwise exactly the index of the latest
\* successful ingestion; so a failed ingestion and a query leave it as it
\* was.
C9_IndexIsLatestIngestion ==
    /\ last_ok = <<>> => vector_store = None
    /\ last_ok # <<>> =>
        vector_store =
            FromDocuments(split_documents(
                Normalize(last_ok[1].file, last_ok[1].tmp_path,
                          Lower(SplitExt(last_ok[1].file.name)))))

\* C9, witness: an ingestion has failed and the index of an earlier,
\* successful ingestion of another file is still the session's.
C9_Witness ==
    /\ Ingested
    /\ ingest.result.raised # "none"
    /\ last_ok # <<>>
    /\ last_ok[1].file # ingest.file
    /\ vector_store # None

Reads == SelectSeq(events, LAMBDA e : e.op = "read")

DiskPrefix(n) == <<"extract", "scout", "success">> \o [i \in 1..n |-> "read"]

\* C10: a disk query runs extract, scout, one read per match in the order
\* of the matches, then one chat call; an answer is shown only with the
\* list of accessed files equal to the matches, all of which were read; with
\* no match there is no read, no chat call and no answer, but a warning.
C10_DiskPathOrder ==
    (handler = "ask_disk")
        => /\ \A i \in 1..Len(Reads) : Reads[i].arg = <<matches[i]>>
           /\ pc = "scout" => Ops(events) = <<"extract">>
           /\ pc = "read" => /\ Ops(events) = DiskPrefix(Len(file_contents))
                             /\ Len(file_contents) < Len(matches)
           /\ pc = "chat" => Ops(events) = DiskPrefix(Len(matches))
           /\ pc = "idle" =>
                IF matches = <<>>
                THEN Ops(events) = <<"extract", "scout", "warning">>
                ELSE \/ /\ Ops(events) = DiskPrefix(Len(matches)) \o <<"chat", "answer", "files">>
                        /\ events[Len(events)].arg = matches
                     \/ Ops(events) = DiskPrefix(Len(matches)) \o <<"chat", "exception">>

\* C10, witness: an answer shown for a query with two or more matches.
C10_Witness ==
    /\ handler = "ask_disk"
    /\ Called("answer")
    /\ Len(matches) >= 2

====
